---- MODULE Spec2Model ----
(***************************************************************************)
(* MPPI planner (src/mppiisaac/planner/mppi.py): MPPIPlanner.__init__,     *)
(* command, reset, get_rollouts and the rollout / cost / weight helpers.   *)
(*                                                                         *)
(* Tensors are sequences.  A float is an integer number of resolution      *)
(* units, or one of the three non-finite values NaN, Inf, NegInf.  The     *)
(* action dimension nu is 1 (noise_sigma = [[1.0]]), so an action vector   *)
(* is written as its single element and U is a sequence of T numbers.      *)
(* Horizon step t of the code (0-based) is index t + 1 of a sequence.      *)
(***************************************************************************)
EXTENDS Integers, Sequences, FiniteSets, TLC

VARIABLES
    cfg,      \* the MPPIConfig object handed to the constructor (mutated by it)
    phase,    \* "new" | "ready" | "failed": outcome of MPPIPlanner.__init__
    mppi,     \* the planner object's fields
    last,     \* what the most recent call did and returned
    cycle,    \* number of calls made so far
    mppi2,    \* a second planner built from the same cfg (two-planner runs)
    last2,    \* the second planner's most recent call
    sync      \* two-planner runs: how far both planners were driven alike

vars == <<cfg, phase, mppi, last, cycle, mppi2, last2, sync>>

----------------------------------------------------------------------------
(* Program constants of the modelled configuration *)

\* cfg.horizon; the Savitzky-Golay window of command() is this T
T == 5
\* the state the caller passes to command(): state_place_holder, zeros
state_place_holder == 0
\* the null-action threshold 0.01 of command(), as NullNum / NullDen
NullNum == 1
NullDen == 100

\* Scale * exp(-h / 2) for h = 0 .. 15 (index h + 1); smaller values underflow to 0
ExpTab == <<1000, 607, 368, 223, 135, 82, 50, 30, 18, 11, 7, 4, 2, 2, 1, 1>>
\* the fixed-point value of 1.0 = exp(0): unit of exp() values and of the weights
Scale == ExpTab[1]

(* Bounds of the model *)

\* cfg.num_samples
K == 2
\* seeds of the random stream a call may consume
MaxSeed == 2
\* noise draws lie in -NoiseMax .. NoiseMax
NoiseMax == 3
\* calls made after construction
MaxCycle == 2
\* magnitude of the configured action bounds
UBound == 2

----------------------------------------------------------------------------
(* float32 values: finite numbers and the non-finite NaN, +Inf, -Inf *)

NaN == Scale * Scale * Scale
Inf == NaN - 1
NegInf == -Inf

IsFinite(x) == x # NaN /\ x # Inf /\ x # NegInf

FNeg(a) == IF a = NaN THEN NaN ELSE -a

FAdd(a, b) ==
    IF a = NaN \/ b = NaN THEN NaN
    ELSE IF (a = Inf /\ b = NegInf) \/ (a = NegInf /\ b = Inf) THEN NaN
    ELSE IF a = Inf \/ b = Inf THEN Inf
    ELSE IF a = NegInf \/ b = NegInf THEN NegInf
    ELSE a + b

FSub(a, b) == FAdd(a, FNeg(b))

FMul(a, b) ==
    IF a = NaN \/ b = NaN THEN NaN
    ELSE IF IsFinite(a) /\ IsFinite(b) THEN a * b
    ELSE IF a = 0 \/ b = 0 THEN NaN
    ELSE IF (a > 0) = (b > 0) THEN Inf ELSE NegInf

FAbs(a) == IF a = NaN THEN NaN ELSE IF a < 0 THEN -a ELSE a

\* a <= b as IEEE compares: FALSE when either side is NaN
FLeq(a, b) == a # NaN /\ b # NaN /\ a <= b

\* torch.min / torch.max of two elements: NaN propagates
FMin(a, b) == IF a = NaN \/ b = NaN THEN NaN ELSE IF a <= b THEN a ELSE b
FMax(a, b) == IF a = NaN \/ b = NaN THEN NaN ELSE IF a >= b THEN a ELSE b

\* round-to-nearest quotient of integers, d > 0
RDiv(n, d) == (2 * n + d) \div (2 * d)

\* finite a divided by finite d, rounded; x/0 is +-Inf, 0/0 is NaN
FDiv(a, d) ==
    IF a = NaN \/ d = NaN THEN NaN
    ELSE IF ~IsFinite(a) /\ ~IsFinite(d) THEN NaN
    ELSE IF ~IsFinite(d) THEN 0
    ELSE IF d = 0 THEN (IF a = 0 THEN NaN ELSE IF a > 0 THEN Inf ELSE NegInf)
    ELSE IF ~IsFinite(a) THEN (IF d > 0 THEN a ELSE FNeg(a))
    ELSE IF d > 0 THEN RDiv(a, d) ELSE RDiv(-a, -d)

\* the tensor <<F(1), ..., F(n)>>
RECURSIVE SeqOf(_, _)
SeqOf(F(_), n) == IF n = 0 THEN <<>> ELSE Append(SeqOf(F, n - 1), F(n))

RECURSIVE FSum(_)
FSum(s) == IF s = <<>> THEN 0 ELSE FAdd(FSum(SubSeq(s, 1, Len(s) - 1)), s[Len(s)])

RECURSIVE FMinSeq(_)
FMinSeq(s) ==
    IF Len(s) = 1 THEN s[1] ELSE FMin(FMinSeq(SubSeq(s, 1, Len(s) - 1)), s[Len(s)])

\* torch.exp(-h / 2) in units of 1 / Scale, h in half units
ExpNegHalf(h) ==
    IF h = NaN THEN NaN
    ELSE IF h = Inf THEN 0
    ELSE IF h = NegInf THEN Inf
    ELSE IF h >= Len(ExpTab) THEN 0
    ELSE IF h >= 0 THEN ExpTab[h + 1]
    ELSE IF -h >= Len(ExpTab) THEN Inf
    ELSE RDiv(Scale * Scale, ExpTab[-h + 1])

----------------------------------------------------------------------------
(* Configuration and collaborators *)

\* the value None, where a horizon step 0 .. T - 1 is expected
None == -1

\* Python truthiness of a number: 0 and 0.0 are falsy
Truthy(x) == x # 0

Samples == 1 .. K
Steps == 1 .. T

DynamicsKinds == {"integrator", "saturate"}
CostKinds == {"dist", "zero", "inf", "nan"}

\* a collaborator that raises: who is "dynamics" or "running_cost", step the
\* horizon step of the call that raises; NoFault is a collaborator that returns
NoFault == [who |-> "none", step |-> None]
Faults == [who : {"dynamics", "running_cost"}, step : 0 .. T - 1]

\* MPPIConfig objects a caller may pass
CfgSpace ==
    [ u_min : {-UBound, 0, UBound},
      u_max : {-UBound, 0, UBound},
      u_scale : {1, 2},
      u_per_command : {1, 2},
      lambda_ : {1, 2},
      sample_null_action : BOOLEAN,
      noise_abs_cost : {FALSE},
      filter_u : BOOLEAN,
      dynamics : DynamicsKinds,
      running_cost : CostKinds,
      noise_sigma : {<<>>},
      fault : {NoFault} ]

\* dynamics collaborator on one sample: (next_state, effective_action);
\* "saturate" clamps the action to the actuator range [-1, 1]
DynStep(kind, s, u) ==
    LET eff == IF kind = "saturate" THEN FMax(FMin(u, 1), -1) ELSE u
    IN  [next_state |-> FAdd(s, eff), effective |-> eff]

\* dynamics(state, u, t) on a batch; state and step are the first and the
\* third argument it observes
dynamics(kind, state, u, t) ==
    [ next_state |-> SeqOf(LAMBDA k : DynStep(kind, state[k], u[k]).next_state, K),
      effective  |-> SeqOf(LAMBDA k : DynStep(kind, state[k], u[k]).effective, K),
      state      |-> state,
      step       |-> t ]

\* distance of the goal state, which is 2
CostOf(kind, s) ==
    CASE kind = "dist" -> FAbs(FSub(s, 2))
      [] kind = "zero" -> 0
      [] kind = "inf"  -> Inf
      [] kind = "nan"  -> NaN

\* running_cost(state) on a batch
running_cost(kind, state) == SeqOf(LAMBDA k : CostOf(kind, state[k]), K)

\* i-th number of the random stream started from seed, a draw of N(0, 1)
Draw(seed, i) ==
    ((3 * seed * seed + 5 * seed * i + i * i) % (2 * NoiseMax + 1)) - NoiseMax

\* the K x T standard normal draws behind noise_dist.sample((K, T))
SampleKT(seed) == SeqOf(LAMBDA k : SeqOf(LAMBDA t : Draw(seed, (k - 1) * T + t), T), K)

\* the T standard normal draws behind noise_dist.sample((T,))
SampleT(seed) == SeqOf(LAMBDA t : Draw(seed, t), T)

\* a covariance matrix as the list of its rows; nu = 1, so [[s]]; None and []
\* are the empty list
Matrix(s) == << <<s>> >>

\* np.identity(int(nx / 2)) with nx = 2
Identity == Matrix(1)

\* torch.inverse of a 1 x 1 matrix, in units of 1 / Scale
Inverse(m) == Matrix(FDiv(Scale, m[1][1]))

\* the Cholesky factor of a 1 x 1 matrix: the positive root of its entry (the
\* entries used are squares)
Cholesky(m) == Matrix(CHOOSE l \in 1 .. m[1][1] : l * l = m[1][1])

\* MultivariateNormal(noise_mu, covariance_matrix=m), noise_mu = [0.0]
MultivariateNormal(m) == [covariance_matrix |-> m, scale_tril |-> Cholesky(m)]

\* one element of dist.sample(): loc + scale_tril @ eps for the standard draw eps
DistSample(dist, eps) == FMul(dist.scale_tril[1][1], eps)

----------------------------------------------------------------------------
(* MPPIPlanner *)

\* fields of a planner object that was not constructed; self.state = None
\* until the first command() (line 133)
NullPlanner ==
    [ U |-> <<>>, u_min |-> 0, u_max |-> 0, lambda_ |-> 0,
      noise_sigma |-> <<>>, noise_sigma_inv |-> <<>>,
      noise_dist |-> [covariance_matrix |-> <<>>, scale_tril |-> <<>>],
      state |-> None, noise |-> <<>>,
      perturbed_action |-> <<>>, cost_total |-> <<>>, cost_total_non_zero |-> <<>>,
      omega |-> <<>>, states |-> <<>>, actions |-> <<>> ]

NoCall ==
    [ op |-> "none", raised |-> FALSE, action |-> <<>>, collapsed |-> FALSE,
      U_old |-> <<>>, U_shift |-> <<>>, rollout_cost |-> <<>>, steps |-> <<>>,
      null_hit |-> FALSE, action_null |-> <<>>, action_filtered |-> <<>>,
      omega_old |-> <<>>, calls |-> <<>> ]

\* cfg after the noise_sigma defaulting of __init__ (lines 81-82)
InitDefaults(c) ==
    IF c.noise_sigma = <<>> THEN [c EXCEPT !.noise_sigma = Identity] ELSE c

\* cfg after the limit defaulting of __init__ (lines 91-94)
InitLimits(c) ==
    LET c1 == IF Truthy(c.u_max) /\ ~Truthy(c.u_min)
              THEN [c EXCEPT !.u_min = -c.u_max] ELSE c
    IN  IF Truthy(c1.u_min) /\ ~Truthy(c1.u_max)
        THEN [c1 EXCEPT !.u_max = -c1.u_min] ELSE c1

\* the assertion of __init__ (line 95)
InitAssert(c) == c.u_max > 0 /\ c.u_min < 0

\* cfg as __init__ leaves it (lines 81-94)
Constructed(c) == InitLimits(InitDefaults(c))

\* torch.inverse (line 105) and MultivariateNormal (lines 106-108) accept the
\* covariance: it is not singular and it is positive definite
InitTensors(c) == c.noise_sigma[1][1] > 0

\* the object __init__ building its caches from the identity covariance
\* whatever cfg.noise_sigma is
NewPlannerIdentityCaches(c) ==
    [ NullPlanner EXCEPT !.U = SeqOf(LAMBDA t : 0, T),
                         !.u_min = c.u_min, !.u_max = c.u_max,
                         !.lambda_ = c.lambda_,
                         !.noise_sigma = c.noise_sigma,
                         !.noise_sigma_inv = Inverse(Identity),
                         !.noise_dist = MultivariateNormal(Identity) ]

\* the object __init__ builds from the defaulted cfg: U = U_init = zeros
NewPlanner(c) ==
    [ NullPlanner EXCEPT !.U = SeqOf(LAMBDA t : 0, T),
                         !.u_min = c.u_min, !.u_max = c.u_max,
                         !.lambda_ = c.lambda_,
                         !.noise_sigma = c.noise_sigma,
                         !.noise_sigma_inv = Inverse(c.noise_sigma),
                         !.noise_dist = MultivariateNormal(c.noise_sigma) ]

\* _dynamics(state, u, t): the step is dropped, the collaborator gets t=None
_dynamics(kind, state, u, t) == dynamics(kind, state, u, None)

_running_cost(kind, state) == running_cost(kind, state)

\* _bound_action on one element
_bound_action(self, a) == FMax(FMin(a, self.u_max), self.u_min)

\* u of one horizon step: u_scale * perturbed_actions[:, t], the last sample
\* zeroed under sample_null_action (lines 233-237)
ScaledAction(c, perturbed_action, t) ==
    SeqOf(LAMBDA k : IF c.sample_null_action /\ k = K THEN 0
                     ELSE FMul(c.u_scale, perturbed_action[k][t + 1]), K)

\* self.perturbed_action after line 239: the null sample's entry of step t
NullRecorded(c, t, perturbed_action) ==
    IF c.sample_null_action
    THEN [perturbed_action EXCEPT ![K][t + 1] = 0]
    ELSE perturbed_action

\* one collaborator call as the caller of command() can observe it: which
\* callback, in which pass of the horizon loop, on which state, what it
\* returned, and the planner's U and omega at the time of the call
Called(acc, fn, t, arg, ret, raised) ==
    [acc EXCEPT !.calls = Append(@, [fn |-> fn, t |-> t, arg |-> arg, ret |-> ret,
                                     raised |-> raised, seen |-> acc.seen])]

\* a collaborator call of step t raised: the loop is left at once, with
\* line 239 done and nothing of lines 245-253
RolloutRaise(c, t, acc) ==
    [acc EXCEPT !.raised = TRUE,
                !.perturbed_action = NullRecorded(c, t, acc.perturbed_action)]

\* the rest of one horizon step, given what dynamics returned (d) and the
\* running cost of its next_state (cst): lines 239, 245, 246, 252, 253
RolloutRecord(c, t, acc, d, cst) ==
    [acc EXCEPT
       !.state = d.next_state,
       !.perturbed_action =
           SeqOf(LAMBDA k : [NullRecorded(c, t, acc.perturbed_action)[k]
                                EXCEPT ![t + 1] = d.effective[k]], K),
       !.cost_samples = SeqOf(LAMBDA k : FAdd(acc.cost_samples[k], cst[k]), K),
       !.states  = Append(acc.states, d.next_state),
       !.actions = Append(acc.actions, d.effective),
       !.steps   = Append(acc.steps, d.step) ]

\* the running cost taken on the state before the step
RolloutCostStale(c, t, acc, d) ==
    IF c.fault = [who |-> "running_cost", step |-> t]
    THEN RolloutRaise(c, t, Called(acc, "running_cost", t, acc.state, <<>>, TRUE))
    ELSE RolloutRecord(c, t,
             Called(acc, "running_cost", t, acc.state,
                    _running_cost(c.running_cost, acc.state), FALSE),
             d, _running_cost(c.running_cost, acc.state))

\* c = self._running_cost(state) on the state dynamics returned (line 242)
RolloutCost(c, t, acc, d) ==
    IF c.fault = [who |-> "running_cost", step |-> t]
    THEN RolloutRaise(c, t, Called(acc, "running_cost", t, d.next_state, <<>>, TRUE))
    ELSE RolloutRecord(c, t,
             Called(acc, "running_cost", t, d.next_state,
                    _running_cost(c.running_cost, d.next_state), FALSE),
             d, _running_cost(c.running_cost, d.next_state))

\* the horizon step once dynamics returned d
RolloutDynamics(c, t, acc, d) ==
    RolloutCost(c, t,
        Called(acc, "dynamics", t, d.state, <<d.next_state, d.effective>>, FALSE), d)

\* every pass of the horizon loop starting over from the initial state
RolloutStepRestart(c, t, acc) ==
    IF c.fault = [who |-> "dynamics", step |-> t]
    THEN RolloutRaise(c, t, Called(acc, "dynamics", t, acc.state, <<>>, TRUE))
    ELSE RolloutDynamics(c, t, acc,
             _dynamics(c.dynamics, SeqOf(LAMBDA k : state_place_holder, K),
                       ScaledAction(c, acc.perturbed_action, t), t))

\* one pass of the horizon loop: state, u = self._dynamics(state, u, t) (line 241)
RolloutStep(c, t, acc) ==
    IF c.fault = [who |-> "dynamics", step |-> t]
    THEN RolloutRaise(c, t, Called(acc, "dynamics", t, acc.state, <<>>, TRUE))
    ELSE RolloutDynamics(c, t, acc,
             _dynamics(c.dynamics, acc.state,
                       ScaledAction(c, acc.perturbed_action, t), t))

\* the horizon loop of _compute_rollout_costs, from step t on; an exception of
\* a collaborator ends it
RECURSIVE RolloutLoop(_, _, _)
RolloutLoop(c, t, acc) ==
    IF t = T \/ acc.raised THEN acc ELSE RolloutLoop(c, t + 1, RolloutStep(c, t, acc))

\* what _compute_rollout_costs returns, from the loop's final values:
\* cost_total, states and actions (K x T), the rewritten self.perturbed_action
RolloutResult(r) ==
    [ raised |-> r.raised,
      cost_total |-> r.cost_samples,
      states  |-> IF r.raised THEN <<>>
                  ELSE SeqOf(LAMBDA k : SeqOf(LAMBDA t : r.states[t][k], T), K),
      actions |-> IF r.raised THEN <<>>
                  ELSE SeqOf(LAMBDA k : SeqOf(LAMBDA t : r.actions[t][k], T), K),
      perturbed_action |-> r.perturbed_action,
      steps |-> r.steps,
      calls |-> r.calls ]

\* _compute_rollout_costs(perturbed_actions) with M = 1 and no terminal cost
_compute_rollout_costs(c, self, perturbed_actions) ==
    RolloutResult(RolloutLoop(c, 0,
        [ state |-> SeqOf(LAMBDA k : self.state, K),
          perturbed_action |-> perturbed_actions,
          cost_samples |-> SeqOf(LAMBDA k : 0, K),
          states |-> <<>>, actions |-> <<>>, steps |-> <<>>,
          raised |-> FALSE, calls |-> <<>>,
          seen |-> [U |-> self.U, omega |-> self.omega] ]))

\* the noise left as it was sampled
BoundedNoiseSampled(self, perturbed_action) == self.noise

\* self.noise = self.perturbed_action - self.U (line 284)
BoundedNoise(self, perturbed_action) ==
    SeqOf(LAMBDA k : SeqOf(LAMBDA t : FSub(perturbed_action[k][t], self.U[t]), T), K)

\* one element of action_cost: lambda_ * noise @ noise_sigma_inv (lines 286-294)
ActionCost(c, self, n) ==
    FDiv(FMul(FMul(self.lambda_, IF c.noise_abs_cost THEN FAbs(n) ELSE n),
              self.noise_sigma_inv[1][1]), Scale)

\* perturbation_cost of the samples (line 297)
PerturbationCost(c, self, noise) ==
    SeqOf(LAMBDA k :
        FSum(SeqOf(LAMBDA t : FMul(self.U[t], ActionCost(c, self, noise[k][t])), T)), K)

\* _compute_total_cost_batch() after the rollout returned r (lines 278-299)
TotalCost(c, self, r, noise) ==
    [ self |-> [self EXCEPT
                 !.noise = noise,
                 !.perturbed_action = r.perturbed_action,
                 !.states = r.states,
                 !.actions = SeqOf(LAMBDA k : SeqOf(LAMBDA t :
                                FDiv(r.actions[k][t], c.u_scale), T), K),
                 !.cost_total = SeqOf(LAMBDA k :
                                FAdd(r.cost_total[k],
                                     PerturbationCost(c, self, noise)[k]), K)],
      raised |-> FALSE,
      rollout_cost |-> r.cost_total,
      steps |-> r.steps,
      calls |-> r.calls ]

\* the rollout raised: the assignment of line 278 and all that follows it are
\* skipped; self keeps the sampled noise and the perturbed_action the loop
\* had rewritten so far
RolloutFailed(self, r) ==
    [ self |-> [self EXCEPT !.perturbed_action = r.perturbed_action],
      raised |-> TRUE,
      rollout_cost |-> <<>>,
      steps |-> r.steps,
      calls |-> r.calls ]

AfterRollout(c, self, r) ==
    IF r.raised
    THEN RolloutFailed(self, r)
    ELSE TotalCost(c, self, r, BoundedNoise(self, r.perturbed_action))

\* self.perturbed_action = _bound_action(self.U + self.noise) (lines 271-276)
PerturbedAction(self, noise) ==
    SeqOf(LAMBDA k : SeqOf(LAMBDA t :
        _bound_action(self, FAdd(self.U[t], noise[k][t])), T), K)

\* self after lines 271-276: the sampled noise and the clipped samples
Sampled(self, noise) ==
    [self EXCEPT !.noise = noise, !.perturbed_action = PerturbedAction(self, noise)]

\* _compute_total_cost_batch() from line 278 on
BatchSampled(c, self) ==
    AfterRollout(c, self, _compute_rollout_costs(c, self, self.perturbed_action))

\* self.noise_dist.sample((K, T)) (line 271)
NoiseKT(self, seed) ==
    SeqOf(LAMBDA k : SeqOf(LAMBDA t :
        DistSample(self.noise_dist, SampleKT(seed)[k][t]), T), K)

\* _compute_total_cost_batch(): the planner after it, and the rollout's return
_compute_total_cost_batch(c, self, seed) ==
    BatchSampled(c, Sampled(self, NoiseKT(self, seed)))

\* torch.roll(U, -1, dims=0)
roll(U) == SeqOf(LAMBDA t : U[(t % T) + 1], T)

\* the exponential taken without the shift by beta
_ensure_non_zero_unshifted(cost, beta, factor2) == ExpNegHalf(FMul(factor2, cost))

\* _ensure_non_zero(cost, beta, factor) on one element; factor2 is 2 * factor,
\* the exponent being counted in half units
_ensure_non_zero(cost, beta, factor2) == ExpNegHalf(FMul(factor2, FSub(cost, beta)))

\* (1.0 / eta) * x in units of 1 / Scale
TimesReciprocal(eta, x) ==
    IF IsFinite(eta) /\ eta # 0 /\ IsFinite(x)
    THEN FDiv(x * Scale, eta)
    ELSE FMul(FDiv(Scale, eta), x)

\* beta and cost_total_non_zero of command() (lines 168-169)
NonZeroCosts(self, cost_total) ==
    SeqOf(LAMBDA k :
        _ensure_non_zero(cost_total[k], FMinSeq(cost_total), 2 \div self.lambda_), K)

\* eta and omega of command() (lines 171-172)
Weights(cost_total_non_zero) ==
    SeqOf(LAMBDA k :
        TimesReciprocal(FSum(cost_total_non_zero), cost_total_non_zero[k]), K)

\* the weighted update of U (lines 174-175)
UpdateU(U, omega, noise) ==
    SeqOf(LAMBDA t :
        FAdd(U[t], FDiv(FSum(SeqOf(LAMBDA k : FMul(omega[k], noise[k][t]), K)),
                        Scale)), T)

\* least-squares quadratic through the T = 5 points of the window, times 35:
\* signal.savgol_filter(u, window_length=T, polyorder=2, mode="interp")
SavgolCoef ==
    << <<31, 9, -3, -5, 3>>, <<9, 13, 12, 6, -5>>, <<-3, 12, 17, 12, -3>>,
       <<-5, 6, 12, 13, 9>>, <<3, -5, -3, 9, 31>> >>

savgol_filter(u) ==
    SeqOf(LAMBDA t :
        FDiv(FSum(SeqOf(LAMBDA j : FMul(SavgolCoef[t][j], u[j]), T)), 35), T)

\* the null-action test of command() (line 178)
NullHit(c, cost_total) ==
    c.sample_null_action /\ FLeq(FMul(cost_total[K], NullDen), NullNum)

\* action after lines 177-179
ActionNull(U, null_hit) == IF null_hit THEN SeqOf(LAMBDA t : 0, T) ELSE U

\* action after lines 184-196
ActionFiltered(c, action) == IF c.filter_u THEN savgol_filter(action) ELSE action

\* the end of command(), from the updated U on (lines 177-204); the returned
\* action is taken from self.U (line 199)
CommandReturn(c, U_old, U_shift, b, s2, null_hit) ==
    [ self |-> s2,
      last |-> [ op |-> "command", raised |-> FALSE,
                 action |-> SubSeq(s2.U, 1, c.u_per_command),
                 collapsed |-> (c.u_per_command = 1),
                 U_old |-> U_old, U_shift |-> U_shift,
                 rollout_cost |-> b.rollout_cost, steps |-> b.steps,
                 null_hit |-> null_hit,
                 action_null |-> ActionNull(s2.U, null_hit),
                 action_filtered |-> ActionFiltered(c, ActionNull(s2.U, null_hit)),
                 omega_old |-> b.self.omega, calls |-> b.calls ] ]

\* command() once the weights are known (lines 172-175)
CommandUpdate(c, U_old, U_shift, b, cost_total_non_zero, omega) ==
    CommandReturn(c, U_old, U_shift, b,
        [b.self EXCEPT !.U = UpdateU(b.self.U, omega, b.self.noise),
                       !.cost_total_non_zero = cost_total_non_zero,
                       !.omega = omega],
        NullHit(c, b.self.cost_total))

\* command() once the total costs are known (lines 168-172)
CommandWeights(c, U_old, U_shift, b, cost_total_non_zero) ==
    CommandUpdate(c, U_old, U_shift, b, cost_total_non_zero,
                  Weights(cost_total_non_zero))

\* command() left by the exception of a collaborator: nothing is returned
CommandRaised(U_old, U_shift, b) ==
    [ self |-> b.self,
      last |-> [NoCall EXCEPT !.op = "command", !.raised = TRUE,
                              !.U_old = U_old, !.U_shift = U_shift,
                              !.steps = b.steps,
                              !.omega_old = b.self.omega, !.calls = b.calls] ]

\* the exception caught in command(), which goes on to return the head of U
CommandShiftedCaught(c, U_old, U_shift, b) ==
    IF b.raised
    THEN [ self |-> b.self,
           last |-> [CommandRaised(U_old, U_shift, b).last EXCEPT
                        !.raised = FALSE,
                        !.action = SubSeq(b.self.U, 1, c.u_per_command)] ]
    ELSE CommandWeights(c, U_old, U_shift, b, NonZeroCosts(b.self, b.self.cost_total))

\* command() after the shift (lines 162-169): an exception raised inside
\* _compute_total_cost_batch() is not caught
CommandShifted(c, U_old, U_shift, b) ==
    IF b.raised
    THEN CommandRaised(U_old, U_shift, b)
    ELSE CommandWeights(c, U_old, U_shift, b, NonZeroCosts(b.self, b.self.cost_total))

\* command(state): the planner after the call, and what the call did
command(c, self, state, seed) ==
    CommandShifted(c, self.U, roll(self.U),
        _compute_total_cost_batch(c,
            [self EXCEPT !.U = roll(self.U), !.state = state], seed))

\* self.noise_dist.sample((T,)) (line 210)
NoiseT(self, seed) == SeqOf(LAMBDA t : DistSample(self.noise_dist, SampleT(seed)[t]), T)

\* reset() drawing T - 1 actions and keeping the last one
reset_keep_last(self, seed) ==
    [self EXCEPT !.U = [NoiseT(self, seed) EXCEPT ![T] = self.U[T]]]

\* reset()
reset(self, seed) == [self EXCEPT !.U = NoiseT(self, seed)]

\* get_rollouts(state): cfg.nx is read first (MPPIConfig declares no nx field);
\* when the caller's cfg carries one, the loop calls _dynamics(..., t) for t = 0
\* and the assignment of the returned pair to states[:, 1] raises
get_rollouts(c, self, state, has_nx) ==
    IF has_nx
    THEN [NoCall EXCEPT !.op = "get_rollouts", !.raised = TRUE,
             !.steps = <<_dynamics(c.dynamics, SeqOf(LAMBDA k : state, K),
                                   SeqOf(LAMBDA k : FMul(c.u_scale, self.U[1]), K),
                                   0).step>>]
    ELSE [NoCall EXCEPT !.op = "get_rollouts", !.raised = TRUE]

\* MPPIisaacPlanner.update_mppi_params(params): cfg.mppi.noise_sigma is
\* replaced, then a planner is constructed from cfg and, when the constructor
\* returns, replaces self.mppi
update_mppi_params(c, self, noise_sigma) ==
    IF /\ InitAssert(Constructed([c EXCEPT !.noise_sigma = noise_sigma]))
       /\ InitTensors(Constructed([c EXCEPT !.noise_sigma = noise_sigma]))
    THEN [ cfg  |-> Constructed([c EXCEPT !.noise_sigma = noise_sigma]),
           self |-> NewPlanner(Constructed([c EXCEPT !.noise_sigma = noise_sigma])),
           last |-> [NoCall EXCEPT !.op = "update_mppi_params"] ]
    ELSE [ cfg  |-> Constructed([c EXCEPT !.noise_sigma = noise_sigma]),
           self |-> self,
           last |-> [NoCall EXCEPT !.op = "update_mppi_params", !.raised = TRUE] ]

----------------------------------------------------------------------------
(* One planner *)

\* the two planners have not been reset together
Apart == [stage |-> "no", differed |-> FALSE]

Init ==
    /\ cfg \in CfgSpace
    /\ phase = "new"
    /\ mppi = NullPlanner
    /\ last = NoCall
    /\ cycle = 0
    /\ mppi2 = NullPlanner
    /\ last2 = NoCall
    /\ sync = Apart

\* MPPIPlanner(cfg, nx, dynamics, running_cost)
Construct ==
    /\ phase = "new"
    /\ cfg' = Constructed(cfg)
    /\ IF InitAssert(cfg') /\ InitTensors(cfg')
       THEN phase' = "ready" /\ mppi' = NewPlanner(cfg')
       ELSE phase' = "failed" /\ mppi' = mppi
    /\ UNCHANGED <<last, cycle, mppi2, last2, sync>>

Command ==
    /\ phase = "ready"
    /\ cycle < MaxCycle
    /\ \E state \in {state_place_holder}, seed \in 1 .. MaxSeed :
         \E r \in {command(cfg, mppi, state, seed)} :
             mppi' = r.self /\ last' = r.last
    /\ cycle' = cycle + 1
    /\ UNCHANGED <<cfg, phase, mppi2, last2, sync>>

Reset ==
    /\ phase = "ready"
    /\ cycle < MaxCycle
    /\ \E seed \in 1 .. MaxSeed : mppi' = reset(mppi, seed)
    /\ last' = [NoCall EXCEPT !.op = "reset"]
    /\ cycle' = cycle + 1
    /\ UNCHANGED <<cfg, phase, mppi2, last2, sync>>

GetRollouts ==
    /\ phase = "ready"
    /\ cycle < MaxCycle
    /\ \E state \in {state_place_holder}, has_nx \in BOOLEAN :
         last' = get_rollouts(cfg, mppi, state, has_nx)
    /\ cycle' = cycle + 1
    /\ UNCHANGED <<cfg, phase, mppi, mppi2, last2, sync>>

Next == Construct \/ Command \/ Reset \/ GetRollouts

Spec == Init /\ [][Next]_vars

----------------------------------------------------------------------------
(* Properties of one planner *)

Abs(n) == IF n < 0 THEN -n ELSE n

AllFinite(s) == \A i \in 1 .. Len(s) : IsFinite(s[i])

NoneFinite(s) == \A i \in 1 .. Len(s) : ~IsFinite(s[i])

InBounds(a) == FLeq(mppi.u_min, a) /\ FLeq(a, mppi.u_max)

\* C1: every element of the action command() returns lies in [u_min, u_max]
\* (stated for the cycles whose costs are finite: non-finite costs are claim C4)
C1_ActionInBounds ==
    (last.op = "command" /\ AllFinite(mppi.cost_total))
    => \A i \in 1 .. Len(last.action) : InBounds(last.action[i])

\* C2: when sample_null_action is set and the cost of sample K - 1 is at most
\* 0.01, command() returns the zero vector
C2_NullActionReturnsZero ==
    (last.op = "command" /\ cfg.sample_null_action
        /\ FLeq(FMul(mppi.cost_total[K], NullDen), NullNum))
    => \A i \in 1 .. Len(last.action) : last.action[i] = 0

\* C3: after a command() with finite costs the retained omega has K components,
\* none negative, summing to 1 (to the rounding of K weights), and a sample of
\* minimum cost has a largest weight
C3_WeightsAreDistribution ==
    (mppi.omega # <<>> /\ AllFinite(mppi.cost_total))
    => /\ Len(mppi.omega) = K
       /\ \A k \in Samples : IsFinite(mppi.omega[k]) /\ mppi.omega[k] >= 0
       /\ 2 * Abs(FSum(mppi.omega) - Scale) <= K
       /\ \A k \in Samples :
            (\A j \in Samples : mppi.cost_total[k] <= mppi.cost_total[j])
            => \A j \in Samples : mppi.omega[k] >= mppi.omega[j]

\* a command() with finite, different costs gave two samples a positive weight
C3_Witness ==
    /\ last.op = "command"
    /\ AllFinite(mppi.cost_total)
    /\ mppi.cost_total[1] # mppi.cost_total[2]
    /\ \E k \in Samples : mppi.omega[k] > 0 /\ mppi.omega[k] < Scale

\* C4: when every per-sample cost of the cycle is non-finite, command() raises
\* and returns no action holding NaN
C4_NonFiniteCostsRaise ==
    (last.op = "command" /\ NoneFinite(mppi.cost_total))
    => /\ last.raised
       /\ \A i \in 1 .. Len(last.action) : last.action[i] # NaN

\* C5: construction with u_max <= 0 or u_min >= 0 fails
C5_BadLimitsFail ==
    [][(phase = "new" /\ (cfg.u_max <= 0 \/ cfg.u_min >= 0)) => phase' = "failed"]_vars

\* C6: the shifted sequence holds U_old[t + 1] at t < T - 1 and keeps U_old[T - 1]
\* in the last slot
C6_ShiftKeepsLast ==
    last.op = "command"
    => /\ \A t \in 1 .. T - 1 : last.U_shift[t] = last.U_old[t + 1]
       /\ last.U_shift[T] = last.U_old[T]

\* C7: command() returns the first u_per_command entries of the filtered U when
\* filter_u is set and of U otherwise, collapsed when u_per_command = 1
C7_ReturnsFilteredAction ==
    last.op = "command"
    => /\ last.action =
            SubSeq(IF cfg.filter_u THEN savgol_filter(mppi.U) ELSE mppi.U,
                   1, cfg.u_per_command)
       /\ last.collapsed = (cfg.u_per_command = 1)

\* C8: the dynamics collaborator observes the horizon step t = 0 .. T - 1 as its
\* third argument, in command() and in get_rollouts()
C8_DynamicsSeesStep ==
    /\ last.op = "command" => last.steps = [i \in 1 .. T |-> i - 1]
    /\ last.op = "get_rollouts" =>
          \A i \in 1 .. Len(last.steps) : last.steps[i] = i - 1

\* running costs summed along the one trajectory that starts in x and applies
\* the effective actions effs[t], effs[t + 1], ... to the collaborator's state
RECURSIVE TrajectoryCost(_, _, _, _)
TrajectoryCost(kind, x, effs, t) ==
    IF t > Len(effs) THEN 0
    ELSE FAdd(CostOf(kind, FAdd(x, effs[t])),
              TrajectoryCost(kind, FAdd(x, effs[t]), effs, t + 1))

\* C10: the rollout returns K costs, that of sample k being the sum over the
\* horizon of the running cost on the states sample k alone reaches
C10_RolloutCostIsTrajectorySum ==
    last.op = "command"
    => /\ Len(last.rollout_cost) = K
       /\ \A k \in Samples :
            /\ last.rollout_cost[k] =
                 TrajectoryCost(cfg.running_cost, mppi.state,
                                mppi.perturbed_action[k], 1)
            /\ last.rollout_cost[k] =
                 FSum(SeqOf(LAMBDA t : CostOf(cfg.running_cost, mppi.states[k][t]), T))

\* a rollout whose samples move, reach different states and cost differently
C10_Witness ==
    /\ last.op = "command"
    /\ AllFinite(last.rollout_cost)
    /\ last.rollout_cost[1] # last.rollout_cost[2]
    /\ \E t \in 1 .. T - 1 : mppi.states[1][t] # mppi.states[1][t + 1]

\* the collaborator call of horizon step t: its dynamics call, its running-cost call
DynamicsCall(t) == last.calls[2 * t + 1]
CostCall(t) == last.calls[2 * t + 2]

\* C13: a command() makes 2 T collaborator calls, dynamics then running_cost for
\* step 0, 1, ..., T - 1; the running cost of step t is taken on the next_state
\* the dynamics call of step t returned, which is also the state the dynamics
\* call of step t + 1 receives; every call sees the shifted U and the previous
\* omega, so it is made after the shift and before weights and update
C13_CollaboratorCallsInOrder ==
    last.op = "command"
    => /\ Len(last.calls) = 2 * T
       /\ \A t \in 0 .. T - 1 :
            /\ DynamicsCall(t).fn = "dynamics" /\ DynamicsCall(t).t = t
            /\ CostCall(t).fn = "running_cost" /\ CostCall(t).t = t
            /\ CostCall(t).arg = DynamicsCall(t).ret[1]
            /\ t < T - 1 => DynamicsCall(t + 1).arg = DynamicsCall(t).ret[1]
       /\ \A i \in 1 .. Len(last.calls) :
            /\ ~last.calls[i].raised
            /\ last.calls[i].seen.U = last.U_shift
            /\ last.calls[i].seen.omega = last.omega_old

\* a command() whose shift and update both change U, whose samples move, and
\* which follows a cycle that left weights
C13_Witness ==
    /\ last.op = "command"
    /\ last.U_shift # last.U_old
    /\ mppi.U # last.U_shift
    /\ last.omega_old # <<>> /\ mppi.omega # last.omega_old
    /\ \E t \in 0 .. T - 2 : DynamicsCall(t + 1).arg # DynamicsCall(t).arg

\* the effective action dynamics returned for sample k at horizon step t
Effective(k, t) == DynamicsCall(t - 1).ret[2][k]

\* C14: after a command() with finite costs, at every step t the retained noise
\* of sample k is its recorded effective action minus the shifted U[t], U[t] is
\* the shifted U[t] plus the omega-weighted sum of that noise, and so U[t] is
\* the omega-weighted average of the recorded effective actions (each to the
\* rounding of the number grid: half a unit, and the weights' sum being 1 to
\* K half units)
C14_UpdateIsWeightedAverage ==
    (last.op = "command" /\ AllFinite(mppi.cost_total))
    => \A t \in Steps :
         /\ \A k \in Samples :
              /\ mppi.perturbed_action[k][t] = Effective(k, t)
              /\ mppi.noise[k][t] = Effective(k, t) - last.U_shift[t]
         /\ 2 * Abs(Scale * (mppi.U[t] - last.U_shift[t])
                    - FSum(SeqOf(LAMBDA k : mppi.omega[k] * mppi.noise[k][t], K)))
              <= Scale
         /\ 2 * Abs(Scale * mppi.U[t]
                    - FSum(SeqOf(LAMBDA k : mppi.omega[k] * Effective(k, t), K)))
              <= Scale + K * Abs(last.U_shift[t])

\* a command() in which clipping or the dynamics changed a sampled action, both
\* samples got weight, and the update moved a nonzero shifted U
C14_Witness ==
    /\ last.op = "command" /\ AllFinite(mppi.cost_total)
    /\ \A k \in Samples : mppi.omega[k] > 0
    /\ \E t \in Steps : last.U_shift[t] # 0 /\ mppi.U[t] # last.U_shift[t]
    /\ \E t \in Steps : Effective(1, t) # Effective(2, t)
    /\ \A s \in 1 .. MaxSeed : mppi.noise # NoiseKT(mppi, s)

----------------------------------------------------------------------------
(* Two planners built from one cfg: each is driven through its own command()
   calls, then both are reset and commanded with the same state and the same
   random stream *)

PairCfgSpace ==
    { c \in CfgSpace : /\ c.u_max = UBound /\ c.u_min = -UBound
                       /\ c.u_scale = 1 /\ c.lambda_ = 1 /\ ~c.filter_u
                       /\ c.running_cost \in {"dist", "nan"} }

InitPair ==
    /\ cfg \in {Constructed(c) : c \in PairCfgSpace}
    /\ phase = "ready"
    /\ mppi = NewPlanner(cfg)
    /\ mppi2 = NewPlanner(cfg)
    /\ last = NoCall
    /\ last2 = NoCall
    /\ cycle = 0
    /\ sync = Apart

CommandA ==
    /\ sync.stage = "no"
    /\ cycle < MaxCycle
    /\ \E state \in {state_place_holder}, seed \in 1 .. MaxSeed :
         \E r \in {command(cfg, mppi, state, seed)} :
             mppi' = r.self /\ last' = r.last
    /\ cycle' = cycle + 1
    /\ UNCHANGED <<cfg, phase, mppi2, last2, sync>>

CommandB ==
    /\ sync.stage = "no"
    /\ cycle < MaxCycle
    /\ \E state \in {state_place_holder}, seed \in 1 .. MaxSeed :
         \E r \in {command(cfg, mppi2, state, seed)} :
             mppi2' = r.self /\ last2' = r.last
    /\ cycle' = cycle + 1
    /\ UNCHANGED <<cfg, phase, mppi, last, sync>>

ResetBoth ==
    /\ sync.stage = "no"
    /\ \E seed \in 1 .. MaxSeed :
         /\ mppi' = reset(mppi, seed)
         /\ mppi2' = reset(mppi2, seed)
    /\ last' = [NoCall EXCEPT !.op = "reset"]
    /\ last2' = [NoCall EXCEPT !.op = "reset"]
    /\ sync' = [stage |-> "reset", differed |-> mppi.U # mppi2.U]
    /\ UNCHANGED <<cfg, phase, cycle>>

CommandBoth ==
    /\ sync.stage # "no"
    /\ cycle <= MaxCycle
    /\ \E state \in {state_place_holder}, seed \in 1 .. MaxSeed :
         \E r \in {command(cfg, mppi, state, seed)},
            r2 \in {command(cfg, mppi2, state, seed)} :
             mppi' = r.self /\ last' = r.last /\ mppi2' = r2.self /\ last2' = r2.last
    /\ sync' = [sync EXCEPT !.stage = "commanded"]
    /\ cycle' = cycle + 1
    /\ UNCHANGED <<cfg, phase>>

NextPair == CommandA \/ CommandB \/ ResetBoth \/ CommandBoth

SpecPair == InitPair /\ [][NextPair]_vars

\* C9: two planners of one configuration, whatever their command() histories,
\* hold the same U after reset() with the same random stream, and return the
\* same actions and retain the same U in the command() calls that follow
C9_ResetForgetsHistory ==
    sync.stage # "no"
    => /\ mppi.U = mppi2.U
       /\ sync.stage = "reset" => \E seed \in 1 .. MaxSeed : mppi.U = NoiseT(mppi, seed)
       /\ sync.stage = "commanded"
          => last.action = last2.action /\ last.collapsed = last2.collapsed

\* planners whose U differed were reset and commanded together
C9_Witness ==
    /\ sync.stage = "commanded"
    /\ sync.differed
    /\ \E t \in Steps : mppi.U[t] # 0

----------------------------------------------------------------------------
(* One planner whose collaborators may raise: at most one command() of a run
   meets a dynamics or running-cost callback that raises at some horizon step *)

RaiseCfgSpace ==
    { c \in CfgSpace : /\ c.u_max = UBound /\ c.u_min = -UBound
                        /\ c.u_scale = 1 /\ c.lambda_ = 1 /\ ~c.filter_u
                        /\ c.running_cost \in {"dist", "zero"} }

InitRaise ==
    /\ cfg \in {Constructed(c) : c \in RaiseCfgSpace}
    /\ phase = "ready"
    /\ mppi = NewPlanner(cfg)
    /\ last = NoCall
    /\ cycle = 0
    /\ mppi2 = NullPlanner
    /\ last2 = NoCall
    /\ sync = Apart

\* command(state) in which a collaborator raises at one horizon step
CommandRaises ==
    /\ cycle < MaxCycle
    /\ sync.stage = "no"
    /\ \E state \in {state_place_holder}, seed \in 1 .. MaxSeed, fault \in Faults :
         \E r \in {command([cfg EXCEPT !.fault = fault], mppi, state, seed)} :
             mppi' = r.self /\ last' = r.last
    /\ cycle' = cycle + 1
    /\ sync' = [sync EXCEPT !.stage = "raised"]
    /\ UNCHANGED <<cfg, phase, mppi2, last2>>

NextRaise == Command \/ CommandRaises

SpecRaise == InitRaise /\ [][NextRaise]_vars

\* number of collaborator calls made when the callback who raises at step t
CallsUntil(who, t) == IF who = "dynamics" THEN 2 * t + 1 ELSE 2 * t + 2

\* C11: a command() in which a collaborator raises at step t raises itself and
\* returns no action; the raising call is the last collaborator call of the
\* cycle; omega, cost_total_non_zero and cost_total stay those of the previous
\* cycle and U is the shifted U, without the weighted update
C11_CollaboratorFailurePropagates ==
    [][ (\E i \in 1 .. Len(last'.calls) : last'.calls[i].raised)
        => /\ last'.op = "command" /\ last'.raised
           /\ last'.action = <<>>
           /\ \A i \in 1 .. Len(last'.calls) :
                 last'.calls[i].raised <=> i = Len(last'.calls)
           /\ LET f == last'.calls[Len(last'.calls)]
              IN  /\ f.fn \in {"dynamics", "running_cost"}
                  /\ Len(last'.calls) = CallsUntil(f.fn, f.t)
           /\ mppi'.omega = mppi.omega
           /\ mppi'.cost_total_non_zero = mppi.cost_total_non_zero
           /\ mppi'.cost_total = mppi.cost_total
           /\ mppi'.U = roll(mppi.U) ]_vars

\* a collaborator raised in the middle of the horizon, in a cycle that follows
\* one which computed weights
C11_Witness ==
    /\ last.op = "command" /\ last.raised
    /\ mppi.omega # <<>>
    /\ Len(last.calls) > 2 /\ Len(last.calls) < 2 * T - 1
    /\ \E t \in Steps : mppi.U[t] # 0

----------------------------------------------------------------------------
(* One planner behind MPPIisaacPlanner: command(), reset() and
   update_mppi_params() in any order *)

ParamsCfgSpace ==
    { c \in CfgSpace : /\ c.u_max = UBound /\ c.u_min = -UBound
                        /\ c.u_scale = 1 /\ c.u_per_command = 1 /\ ~c.filter_u
                        /\ c.running_cost = "dist" }

\* values of params['noise_sigma']: none, singular, not positive definite,
\* the identity, and variance 4
ParamSigmas == {<<>>, Matrix(0), Matrix(-1), Matrix(1), Matrix(4)}

InitParams ==
    /\ cfg \in {Constructed(c) : c \in ParamsCfgSpace}
    /\ phase = "ready"
    /\ mppi = NewPlanner(cfg)
    /\ last = NoCall
    /\ cycle = 0
    /\ mppi2 = NullPlanner
    /\ last2 = NoCall
    /\ sync = Apart

UpdateMppiParams ==
    /\ phase = "ready"
    /\ cycle < MaxCycle
    /\ \E noise_sigma \in ParamSigmas :
         \E r \in {update_mppi_params(cfg, mppi, noise_sigma)} :
             cfg' = r.cfg /\ mppi' = r.self /\ last' = r.last
    /\ cycle' = cycle + 1
    /\ UNCHANGED <<phase, mppi2, last2, sync>>

NextParams == Command \/ Reset \/ UpdateMppiParams

SpecParams == InitParams /\ [][NextParams]_vars

\* the fields of the planner that only update_mppi_params may replace
Configured(self) ==
    <<self.noise_sigma, self.noise_sigma_inv, self.noise_dist,
      self.u_min, self.u_max, self.lambda_>>

====
